---- MODULE Spec2Model ----
(***************************************************************************)
(* The analysis pipeline of linkinthe.video: the stage functions of        *)
(* pipeline/steps.py, the provider registry of pipeline/adapters.py and    *)
(* the reconciliation/persistence wrapper of pipeline/client.py over the   *)
(* tables of video/models.py.                                              *)
(*                                                                         *)
(* Python dictionaries are records whose optional keys hold an option:     *)
(* None (key absent, or the Python value None) or Some(v).  Confidences    *)
(* are fixed-point numbers in units of 1/10000, so 0.7 is 7000.            *)
(***************************************************************************)
EXTENDS Integers, Sequences, FiniteSets, TLC

VARIABLES
    settings,     \* django settings.PIPELINE_PROVIDERS: capability -> provider name
    status,       \* Video.status of every video row
    products,     \* Product table: row id = position, value = the row
    listings,     \* ProductMarket table, in insertion order
    vps,          \* VideoProduct table: the set of its rows
    pc,           \* position of every trigger_analysis invocation
    vid,          \* the video an invocation was triggered for
    use_mock,     \* the use_mock argument of the invocation
    providers,    \* the PipelineProviders the invocation resolved
    result,       \* the PipelineResult of the invocation's run_pipeline
    index,        \* the loop index of _persist_products
    product,      \* the local variable product of _persist_products (0 = None)
    exc,          \* the exception raised in / propagating out of the invocation
    ret,          \* the dict returned by the invocation
    runs,         \* number of trigger_analysis calls made so far
    run,          \* the serial number of the invocation's current call
    ctx,          \* PipelineContext of a stand-alone run_pipeline call
    stage,        \* the stage that run_pipeline call is about to execute
    out,          \* what that call returned (found, lost) or raised (exc)
    canned,       \* the products attribute of the MockLLMProvider of that provider set
    history,      \* the PipelineResults the calls with that provider set returned
    req,          \* the update_video request in progress: the Video it loaded
    calls,        \* number of API requests made so far
    det,          \* a call of _determine_source: its argument and its return value
    vision_calls, \* the analyze_image calls the refinement stage made, in order
    resp,         \* a provider handed an upstream response: the body and what it returned
    credits,      \* User.credits of the requesting user, as stored
    cv,           \* the create_video requests: position and the User object each loaded
    nvideos       \* number of Video rows the create_video requests created

vars == <<settings, status, products, listings, vps, pc, vid, use_mock,
          providers, result, index, product, exc, ret, runs, run, ctx, stage, out,
          canned, history, req, calls, det, vision_calls, resp, credits, cv, nvideos>>

dbVars == <<status, products, listings, vps>>
invVars == <<pc, vid, use_mock, providers, result, index, product, exc, ret, runs, run>>
pipeVars == <<ctx, stage, out, canned, history, vision_calls>>
apiVars == <<req, calls>>
soloVars == <<det, resp>>
creditVars == <<credits, cv, nvideos>>

(***************************************************************************)
(* Bounds of the model.                                                    *)
(***************************************************************************)
MaxCands == 2      \* longest candidate list an extraction provider returns
MaxRuns == 2       \* trigger_analysis calls per behaviour
MaxPipeCalls == 2  \* run_pipeline calls with one provider set
MaxCalls == 1      \* API requests per behaviour
MaxSources == 3    \* longest sources list handed to _determine_source

(***************************************************************************)
(* Python values.                                                          *)
(***************************************************************************)
None == <<>>
Some(v) == <<v>>

\* dict.get(key, default)
DictGet(o, default) == IF o = None THEN default ELSE o[1]

\* truth value of dict.get(key) for a string-valued key
Truthy(o) == o # None /\ o[1] # ""

\* fixed-point confidences
FoundThreshold == 7000
RefineThreshold == 8000
BuildDefaultConfidence == 0
RefineDefaultConfidence == 10000
VisionDefaultConfidence == 5000
MockVisionConfidence == 9500

MockAsin == "B00MOCK123"
MockImage == "https://example.com/mock.jpg"


(***************************************************************************)
(* pipeline/adapters.py: the providers.  A provider is named by the key it *)
(* is registered under; "custom" is a ProductSearchProvider handed to      *)
(* run_pipeline directly whose search finds nothing.                       *)
(***************************************************************************)
Exception(type, origin) == [type |-> type, origin |-> origin]

TRANSCRIPTION_PROVIDERS == {"mock", "whisper", "gemini"}
VISION_PROVIDERS == {"mock", "openai", "gemini"}
LLM_PROVIDERS == {"mock", "openai", "gemini"}
PRODUCT_SEARCH_PROVIDERS == {"mock", "amazon"}

\* a candidate as an extraction provider returns it
Candidate(name, timestamp, asin, sources, confidence) ==
    [name |-> name, timestamp |-> timestamp, asin |-> asin, sources |-> sources,
     confidence |-> confidence, image_url |-> None, product_url |-> None]

\* MockLLMProvider().products
MockLLMProducts ==
    << Candidate(Some("Mock Tripod"), Some("00:42"), Some(MockAsin),
                 Some(<<"audio">>), None) >>

\* MockProductSearchProvider.search / AmazonProductSearchProvider.search
SearchRaises(kind) == kind = "amazon"

search(kind, query) ==
    IF kind = "mock"
    THEN << [asin |-> MockAsin, name |-> "Mock Product: " \o query,
             image_url |-> Some(MockImage), url |-> None] >>
    ELSE << >>

\* a lookup that answers with another image than the search does
GetByAsinOtherImage(kind, asin) ==
    IF kind = "mock"
    THEN Some([asin |-> asin, name |-> "Mock Product " \o asin,
               image_url |-> Some("https://example.com/other.jpg"), url |-> None])
    ELSE None

\* MockProductSearchProvider.get_by_asin (an option: None when not found)
get_by_asin(kind, asin) ==
    IF kind = "mock"
    THEN Some([asin |-> asin, name |-> "Mock Product " \o asin,
               image_url |-> Some(MockImage), url |-> None])
    ELSE None

\* MockVisionProvider().analyze_image(...).products
MockVisionProducts ==
    << [name |-> Some("Mock Product"), confidence |-> Some(MockVisionConfidence)] >>

(***************************************************************************)
(* pipeline/steps.py: the stage functions.  A stage maps a context to the  *)
(* context it returns; <Stage>Raises tells when it raises instead.         *)
(***************************************************************************)
NewContext(youtube_url, provs) ==
    [youtube_url |-> youtube_url, providers |-> provs,
     video_path |-> <<>>, audio_path |-> <<>>, transcript |-> "",
     frames |-> <<>>, candidates |-> <<>>, enriched |-> <<>>]

\* real: PIPELINE_USE_REAL_DOWNLOAD; the real fetch yields a file or raises
download_video(c, real) ==
    IF ~real
    THEN [c EXCEPT !.video_path = <<"/tmp/downloads", c.youtube_url, ".mp4">>]
    ELSE [c EXCEPT !.video_path = <<"linkinthe-video/downloads", "uuid", ".mp4">>]

extract_audio(c, real) ==
    IF ~real
    THEN [c EXCEPT !.audio_path = <<c.video_path[1], c.video_path[2], ".wav">>]
    ELSE [c EXCEPT !.audio_path = <<"linkinthe-video/audio", "uuid", ".wav">>]

transcribe_audio(c, text) == [c EXCEPT !.transcript = text]

extract_frames(c) == [c EXCEPT !.frames = <<>>]

InSeq(x, s) == \E i \in 1..Len(s) : s[i] = x

\* product.setdefault("sources", []); append "audio" when it is not there
MarkAudio(cand) ==
    LET srcs == DictGet(cand.sources, <<>>) IN
    [cand EXCEPT !.sources =
        Some(IF InSeq("audio", srcs) THEN srcs ELSE Append(srcs, "audio"))]

detect_products_from_audio(c, llm_products) ==
    [c EXCEPT !.candidates = [i \in 1..Len(llm_products) |-> MarkAudio(llm_products[i])]]

\* a filter that also takes the candidates at the threshold
UnclearAtThreshold(cand) ==
    /\ ~Truthy(cand.asin)
    /\ DictGet(cand.confidence, RefineDefaultConfidence) <= RefineThreshold

\* the candidates the refinement stage calls unclear
Unclear(cand) ==
    /\ ~Truthy(cand.asin)
    /\ DictGet(cand.confidence, RefineDefaultConfidence) < RefineThreshold

\* an update that replaces the sources of the candidate by the video tag
RefineReplacesSources(cand, vision_products) ==
    IF vision_products = <<>>
    THEN cand
    ELSE LET best == vision_products[1] IN
         [cand EXCEPT
            !.name = IF best.name = None THEN cand.name ELSE best.name,
            !.confidence = Some(DictGet(best.confidence, VisionDefaultConfidence)),
            !.sources = Some(<<"video">>)]

\* the update of one unclear candidate from a vision result
Refine(cand, vision_products) ==
    IF vision_products = <<>>
    THEN cand
    ELSE LET best == vision_products[1]
             srcs == DictGet(cand.sources, <<>>) IN
         [cand EXCEPT
            !.name = IF best.name = None THEN cand.name ELSE best.name,
            !.confidence = Some(DictGet(best.confidence, VisionDefaultConfidence)),
            !.sources = IF InSeq("video", srcs) THEN cand.sources
                        ELSE Some(Append(srcs, "video"))]

\* vision_replies[i] is what analyze_image answers when it is called for
\* candidate i
detect_products_from_video(c, vision_replies) ==
    IF c.frames = <<>>
    THEN c
    ELSE [c EXCEPT !.candidates =
            [i \in 1..Len(c.candidates) |->
                IF Unclear(c.candidates[i])
                THEN Refine(c.candidates[i], vision_replies[i])
                ELSE c.candidates[i]]]

\* the analyze_image(frame_path, prompt) calls of that stage, in order: the
\* frame, the name the prompt embeds, the candidate it is made for and the
\* products of the result
VisionCalls(c, vision_replies) ==
    IF c.frames = <<>>
    THEN <<>>
    ELSE LET call(i) == [frame |-> c.frames[1], name |-> c.candidates[i].name,
                         cand |-> i, products |-> vision_replies[i]]
             made(k) == Unclear(c.candidates[k.cand])
         IN  SelectSeq([i \in 1..Len(c.candidates) |-> call(i)], made)

\* MockVisionProvider answers every call with its products
MockVisionReplies(c) == [i \in 1..Len(c.candidates) |-> MockVisionProducts]

\* the body of the loop of enrich_with_search for one candidate
EnrichRaises(cand, kind) ==
    /\ SearchRaises(kind)
    /\ (Truthy(cand.asin) \/ DictGet(cand.name, "") # "")

EnrichCandidate(cand, kind) ==
    IF Truthy(cand.asin)
    THEN LET found == get_by_asin(kind, cand.asin[1]) IN
         IF found # None
         THEN [cand EXCEPT !.image_url = found[1].image_url,
                           !.product_url = found[1].url]
         ELSE cand
    ELSE LET name == DictGet(cand.name, "") IN
         IF name # ""
         THEN LET results == search(kind, name) IN
              IF results # <<>>
              THEN [cand EXCEPT !.asin = Some(results[1].asin),
                                !.image_url = results[1].image_url,
                                !.product_url = results[1].url]
              ELSE cand
         ELSE cand

enrich_with_search_raises(c) ==
    \E i \in 1..Len(c.candidates) :
        EnrichRaises(c.candidates[i], c.providers.product_search)

\* a loop that appends a candidate only when the search gave it an identifier
RECURSIVE EnrichLoopDropsUnmatched(_, _, _)
EnrichLoopDropsUnmatched(cands, kind, enriched) ==
    IF cands = <<>>
    THEN enriched
    ELSE EnrichLoopDropsUnmatched(Tail(cands), kind,
            IF Truthy(EnrichCandidate(Head(cands), kind).asin)
            THEN Append(enriched, EnrichCandidate(Head(cands), kind))
            ELSE enriched)

RECURSIVE EnrichLoop(_, _, _)
EnrichLoop(cands, kind, enriched) ==
    IF cands = <<>>
    THEN enriched
    ELSE EnrichLoop(Tail(cands), kind, Append(enriched, EnrichCandidate(Head(cands), kind)))

enrich_with_search(c) ==
    \* the candidates are updated in place, and appended to the new list
    [c EXCEPT
       !.candidates = [i \in 1..Len(c.candidates) |->
                          EnrichCandidate(c.candidates[i], c.providers.product_search)],
       !.enriched = EnrichLoop(c.candidates, c.providers.product_search, <<>>)]

\* the result_item build_result makes of one enriched candidate; cand is the
\* position of the candidate in ctx.enriched (kept for the verification only)
ResultItem(item, cand) ==
    [name |-> DictGet(item.name, "Unknown"),
     timestamp |-> DictGet(item.timestamp, ""),
     asin |-> item.asin,
     sources |-> DictGet(item.sources, <<>>),
     image_url |-> item.image_url,
     cand |-> cand]

\* a found test with a strict comparison
IsFoundStrict(item) ==
    Truthy(item.asin) \/ DictGet(item.confidence, BuildDefaultConfidence) > FoundThreshold

\* "If we have ASIN or high confidence, it's found"
IsFound(item) ==
    Truthy(item.asin) \/ DictGet(item.confidence, BuildDefaultConfidence) >= FoundThreshold

RECURSIVE BuildLoop(_, _, _)
BuildLoop(enriched, i, res) ==
    IF i > Len(enriched)
    THEN res
    ELSE LET result_item == ResultItem(enriched[i], i) IN
         BuildLoop(enriched, i + 1,
                   IF IsFound(enriched[i])
                   THEN [res EXCEPT !.found = Append(@, result_item)]
                   ELSE [res EXCEPT !.lost = Append(@, result_item)])

build_result(c) == BuildLoop(c.enriched, 1, [found |-> <<>>, lost |-> <<>>])


(***************************************************************************)
(* run_pipeline, stage by stage, called on its own with a provider set.    *)
(***************************************************************************)
MockUrl == "https://youtu.be/mock"

Names == {None, Some(""), Some("A")}
Confidences == {None, Some(6999), Some(FoundThreshold)}

\* the candidates an extraction provider may return
CandidatePool ==
    { Candidate(n, None, a, None, c) : n \in Names, a \in {None, Some("X")}, c \in Confidences }
    \cup { Candidate(Some("A"), Some("00:42"), Some(""), s, Some(6999)) :
             s \in {Some(<<>>), Some(<<"audio">>), Some(<<"subtitle">>)} }
    \cup { Candidate(None, None, Some(""), None, Some(FoundThreshold)) }
    \cup { Candidate(Some("A"), None, None, None, Some(c)) : c \in {RefineThreshold - 1, RefineThreshold} }
    \cup { Candidate(Some("A"), None, None, Some(<<"video">>), Some(6999)) }

RECURSIVE SeqsUpTo(_, _)
SeqsUpTo(S, n) ==
    IF n = 0 THEN { <<>> }
    ELSE LET shorter == SeqsUpTo(S, n - 1) IN
         shorter \cup { Append(s, x) : s \in { t \in shorter : Len(t) = n - 1 }, x \in S }

CandLists == SeqsUpTo(CandidatePool, MaxCands)

\* MockLLMProvider(products): "products or [the default]"
MockLLMProvider(given) == IF given = <<>> THEN MockLLMProducts ELSE given

\* a PipelineProviders value, by the kind of each provider
PipelineProviders(t, v, l, s) ==
    [transcription |-> t, vision |-> v, llm |-> l, product_search |-> s]

\* config/settings.py as the pipeline reads it
Settings(names, real_download, real_audio) ==
    [PIPELINE_PROVIDERS |-> names,
     PIPELINE_USE_REAL_DOWNLOAD |-> real_download,
     PIPELINE_USE_REAL_AUDIO |-> real_audio]

DefaultSettings == Settings(PipelineProviders("mock", "mock", "mock", "mock"), FALSE, FALSE)

\* the provider sets and download settings run_pipeline is called with
PipeSetups ==
    LET S(p, real) == [providers |-> p,
                       settings |-> Settings(DefaultSettings.PIPELINE_PROVIDERS, real, real)] IN
    { S(PipelineProviders("mock", "mock", "mock", "mock"), FALSE),
      S(PipelineProviders("mock", "mock", "mock", "custom"), FALSE),
      S(PipelineProviders("mock", "mock", "mock", "amazon"), FALSE),
      S(PipelineProviders("whisper", "mock", "openai", "mock"), FALSE),
      S(PipelineProviders("mock", "mock", "mock", "mock"), TRUE) }

NoOut == [found |-> <<>>, lost |-> <<>>, exc |-> None]

PipeRaise(e) ==
    /\ stage' = "raised"
    /\ out' = [NoOut EXCEPT !.exc = Some(e)]
    /\ UNCHANGED <<ctx, canned>>

\* the list a stage leaves in MockLLMProvider.products: extract_products
\* returns self.products itself, so ctx.candidates is that list and the
\* stages that update candidates in place update it
Shared(c, cands) == IF c.providers.llm = "mock" THEN cands ELSE canned

PipeDownload ==
    /\ stage = "download_video"
    /\ \/ /\ ctx' = download_video(ctx, settings.PIPELINE_USE_REAL_DOWNLOAD)
          /\ stage' = "extract_audio"
          /\ UNCHANGED <<out, canned>>
       \/ /\ settings.PIPELINE_USE_REAL_DOWNLOAD
          /\ PipeRaise(Exception("RuntimeError", "download_video"))
    /\ UNCHANGED <<history, vision_calls, settings, dbVars, invVars, apiVars, soloVars, creditVars>>

PipeExtractAudio ==
    /\ stage = "extract_audio"
    /\ \/ /\ ctx' = extract_audio(ctx, settings.PIPELINE_USE_REAL_AUDIO)
          /\ stage' = "transcribe_audio"
          /\ UNCHANGED <<out, canned>>
       \/ /\ settings.PIPELINE_USE_REAL_AUDIO
          /\ PipeRaise(Exception("RuntimeError", "extract_audio"))
    /\ UNCHANGED <<history, vision_calls, settings, dbVars, invVars, apiVars, soloVars, creditVars>>

PipeTranscribe ==
    /\ stage = "transcribe_audio"
    /\ \/ /\ ctx' = transcribe_audio(ctx, "This is a mock transcript.")
          /\ stage' = "extract_frames"
          /\ UNCHANGED <<out, canned>>
       \/ /\ ctx.providers.transcription # "mock"
          /\ PipeRaise(Exception("RuntimeError", "transcribe_audio"))
    /\ UNCHANGED <<history, vision_calls, settings, dbVars, invVars, apiVars, soloVars, creditVars>>

PipeExtractFrames ==
    /\ stage = "extract_frames"
    /\ ctx' = extract_frames(ctx)
    /\ stage' = "detect_products_from_audio"
    /\ UNCHANGED <<out, canned, history, vision_calls, settings, dbVars, invVars, apiVars, soloVars, creditVars>>

PipeDetectAudio ==
    /\ stage = "detect_products_from_audio"
    /\ \/ \E reply \in IF ctx.providers.llm = "mock" THEN { canned } ELSE CandLists :
            /\ ctx' = detect_products_from_audio(ctx, reply)
            /\ canned' = Shared(ctx, ctx'.candidates)
            /\ stage' = "detect_products_from_video"
            /\ UNCHANGED out
       \/ /\ ctx.providers.llm # "mock"
          /\ PipeRaise(Exception("RuntimeError", "detect_products_from_audio"))
    /\ UNCHANGED <<history, vision_calls, settings, dbVars, invVars, apiVars, soloVars, creditVars>>

\* what a real vision provider may find in a frame: nothing, one product,
\* a product without name and confidence, two products
VisionReplies ==
    LET P(n, conf) == [name |-> n, confidence |-> conf] IN
    { << >>,
      << P(Some("V"), Some(MockVisionConfidence)) >>,
      << P(None, None) >>,
      << P(Some("V"), Some(6000)), P(Some("W"), Some(9900)) >> }

PipeDetectVideo ==
    /\ stage = "detect_products_from_video"
    /\ \E vision_replies \in
            IF ctx.providers.vision = "mock" \/ ctx.frames = <<>>
            THEN { MockVisionReplies(ctx) }
            ELSE [1..Len(ctx.candidates) -> VisionReplies] :
          /\ ctx' = detect_products_from_video(ctx, vision_replies)
          /\ vision_calls' = vision_calls \o VisionCalls(ctx, vision_replies)
    /\ canned' = Shared(ctx, ctx'.candidates)
    /\ stage' = "enrich_with_search"
    /\ UNCHANGED <<out, history, settings, dbVars, invVars, apiVars, soloVars, creditVars>>

PipeEnrich ==
    /\ stage = "enrich_with_search"
    /\ IF enrich_with_search_raises(ctx)
       THEN PipeRaise(Exception("NotImplementedError", "enrich_with_search"))
       ELSE /\ ctx' = enrich_with_search(ctx)
            /\ canned' = Shared(ctx, ctx'.candidates)
            /\ stage' = "build_result"
            /\ UNCHANGED out
    /\ UNCHANGED <<history, vision_calls, settings, dbVars, invVars, apiVars, soloVars, creditVars>>

PipeBuild ==
    /\ stage = "build_result"
    /\ LET res == build_result(ctx) IN
       /\ out' = [found |-> res.found, lost |-> res.lost, exc |-> None]
       /\ history' = Append(history, res)
    /\ stage' = "done"
    /\ UNCHANGED <<ctx, canned, vision_calls, settings, dbVars, invVars, apiVars, soloVars, creditVars>>

\* run_pipeline(youtube_url, providers) again, with the same provider set
PipeAgain ==
    /\ stage = "done"
    /\ ctx.providers.llm = "mock"
    /\ Len(history) < MaxPipeCalls
    /\ ctx' = NewContext(ctx.youtube_url, ctx.providers)
    /\ stage' = "download_video"
    /\ out' = NoOut
    /\ UNCHANGED <<canned, history, vision_calls, settings, dbVars, invVars, apiVars, soloVars, creditVars>>


(***************************************************************************)
(* run_pipeline as one function of its inputs: the provider set and what   *)
(* the outside world answers (world) during the call.                      *)
(***************************************************************************)
World(download_fails, audio_fails, transcribe_fails, llm_fails, llm_reply) ==
    [download_fails |-> download_fails, audio_fails |-> audio_fails,
     transcribe_fails |-> transcribe_fails, llm_fails |-> llm_fails,
     llm_reply |-> llm_reply]

\* what a real extraction provider may answer during a triggered analysis
LLMReplies ==
    LET Named(n, a) == Candidate(Some(n), None, a, None, None)
        Nameless(c) == Candidate(None, None, None, None, c) IN
    { << >>,
      << Named("A", Some("X")), Named("B", Some("X")) >>,
      << Named("A", Some("X")), Named("A", Some("X")) >>,
      << Named("A", None), Nameless(None), Nameless(Some(FoundThreshold)) >> }

\* the worlds a call with these providers can meet: a provider that is a
\* mock neither fails nor answers anything but its canned value
Worlds(provs, cfg) ==
    { World(d, a, t, l, r) :
        d \in {FALSE, cfg.PIPELINE_USE_REAL_DOWNLOAD},
        a \in {FALSE, cfg.PIPELINE_USE_REAL_AUDIO},
        t \in {FALSE, provs.transcription # "mock"},
        l \in {FALSE, provs.llm # "mock"},
        r \in IF provs.llm = "mock" THEN { MockLLMProducts } ELSE LLMReplies }

Raised(e) == [found |-> <<>>, lost |-> <<>>, exc |-> Some(e)]

run_pipeline(youtube_url, provs, cfg, world) ==
    LET c0 == NewContext(youtube_url, provs)
        c1 == download_video(c0, cfg.PIPELINE_USE_REAL_DOWNLOAD)
        c2 == extract_audio(c1, cfg.PIPELINE_USE_REAL_AUDIO)
        c3 == transcribe_audio(c2, "This is a mock transcript.")
        c4 == extract_frames(c3)
        c5 == detect_products_from_audio(c4, world.llm_reply)
        c6 == detect_products_from_video(c5, MockVisionReplies(c5))
        c7 == enrich_with_search(c6)
        res == build_result(c7)
    IN  IF world.download_fails THEN Raised(Exception("RuntimeError", "download_video"))
        ELSE IF world.audio_fails THEN Raised(Exception("RuntimeError", "extract_audio"))
        ELSE IF world.transcribe_fails THEN Raised(Exception("RuntimeError", "transcribe_audio"))
        ELSE IF world.llm_fails THEN Raised(Exception("RuntimeError", "detect_products_from_audio"))
        ELSE IF enrich_with_search_raises(c6)
             THEN Raised(Exception("NotImplementedError", "enrich_with_search"))
        ELSE [found |-> res.found, lost |-> res.lost, exc |-> None]

(***************************************************************************)
(* video/models.py: the tables.                                            *)
(***************************************************************************)
PROCESSING == "processing"
COMPLETED == "completed"
FAILED == "failed"
VideoStatus == {PROCESSING, COMPLETED, FAILED}

AMAZON == "amazon"

Videos == {"v1", "v2"}
Procs == {"p1", "p2"}

\* Product.objects.filter(name=name): the ids of the matching rows
ProductsNamed(name) == { i \in 1..Len(products) : products[i].name = name }

\* ProductMarket.objects.filter(product=, market=, market_product_id=)
ListingsOf(prod, market, mpid) ==
    { i \in 1..Len(listings) :
        /\ listings[i].product = prod
        /\ listings[i].market = market
        /\ listings[i].market_product_id = mpid }

\* a table without the constraint
NoUniqueTogether(prod, market, mpid) == FALSE

\* Meta.unique_together of ProductMarket: the insert is refused
UniqueTogetherViolated(prod, market, mpid) == ListingsOf(prod, market, mpid) # {}

(***************************************************************************)
(* pipeline/client.py.                                                     *)
(***************************************************************************)
\* ProviderRegistry.get_*: the name is not registered for the capability
UnknownProvider(names) ==
    \/ names.transcription \notin TRANSCRIPTION_PROVIDERS
    \/ names.vision \notin VISION_PROVIDERS
    \/ names.llm \notin LLM_PROVIDERS
    \/ names.product_search \notin PRODUCT_SEARCH_PROVIDERS

\* a resolution that never fails
ResolutionNeverRaises(mock, cfg) == FALSE

_get_providers_from_settings_raises(mock, cfg) ==
    ~mock /\ UnknownProvider(cfg.PIPELINE_PROVIDERS)

_get_providers_from_settings(mock, cfg) ==
    IF mock
    THEN PipelineProviders("mock", "mock", "mock", "mock")
    ELSE cfg.PIPELINE_PROVIDERS

\* a resolution with the priority audio > video > subtitle
DetermineSourceAudioFirst(sources) ==
    IF sources = <<>> THEN "audio"
    ELSE IF InSeq("audio", sources) THEN "audio"
    ELSE IF InSeq("video", sources) THEN "video"
    ELSE IF InSeq("subtitle", sources) THEN "subtitle"
    ELSE "audio"

_determine_source(sources) ==
    IF sources = <<>> THEN "audio"
    ELSE IF InSeq("video", sources) THEN "video"
    ELSE IF InSeq("audio", sources) THEN "audio"
    ELSE IF InSeq("subtitle", sources) THEN "subtitle"
    ELSE "audio"

\* the deployments the model covers
SettingsChoices ==
    { DefaultSettings,
      Settings(PipelineProviders("unknown", "mock", "mock", "mock"), FALSE, FALSE),
      Settings(PipelineProviders("mock", "unknown", "mock", "mock"), FALSE, FALSE),
      Settings(PipelineProviders("mock", "mock", "whisper", "mock"), FALSE, FALSE),
      Settings(PipelineProviders("mock", "mock", "mock", "unknown"), FALSE, FALSE),
      Settings(PipelineProviders("mock", "mock", "openai", "mock"), FALSE, FALSE),
      Settings(PipelineProviders("mock", "mock", "mock", "amazon"), FALSE, FALSE),
      Settings(PipelineProviders("whisper", "mock", "mock", "mock"), TRUE, FALSE) }

NoProviders == PipelineProviders("", "", "", "")
NoContext == NewContext("", NoProviders)

InitDb ==
    /\ status = [v \in Videos |-> PROCESSING]    \* the default of Video.status
    /\ products = <<>>
    /\ listings = <<>>
    /\ vps = {}

InitInvocations ==
    /\ pc = [p \in Procs |-> "idle"]
    /\ vid = [p \in Procs |-> "v1"]
    /\ use_mock = [p \in Procs |-> TRUE]
    /\ providers = [p \in Procs |-> NoProviders]
    /\ result = [p \in Procs |-> NoOut]
    /\ index = [p \in Procs |-> 0]
    /\ product = [p \in Procs |-> 0]
    /\ exc = [p \in Procs |-> None]
    /\ ret = [p \in Procs |-> None]
    /\ run = [p \in Procs |-> 0]
    /\ runs = 0

\* no API request in progress, none made
InitApi ==
    /\ req = None
    /\ calls = 0

\* no call of _determine_source
NoCall == [sources |-> <<>>, source |-> None]

\* no provider was handed a response
NoResponse == [provider |-> "", body |-> None, ret |-> None]

\* no create_video request
InitCredits ==
    /\ credits = 0
    /\ cv = [r \in {} |-> 0]
    /\ nvideos = 0

\* what the other specifications leave untouched
InitRest ==
    /\ vision_calls = <<>>
    /\ resp = NoResponse
    /\ InitCredits

Init ==
    /\ settings \in SettingsChoices
    /\ InitDb
    /\ InitInvocations
    /\ ctx = NoContext
    /\ stage = "none"
    /\ out = NoOut
    /\ canned = <<>>
    /\ history = <<>>
    /\ InitApi
    /\ det = NoCall
    /\ InitRest

(***************************************************************************)
(* trigger_analysis, one action per statement that reads or writes the     *)
(* database.  A get_or_create is the queries Django runs for it: a get,    *)
(* and on DoesNotExist a create whose IntegrityError is answered by a get. *)
(***************************************************************************)
StartRaise(p, e) ==
    /\ exc' = [exc EXCEPT ![p] = Some(e)]
    /\ pc' = [pc EXCEPT ![p] = "except"]

\* where _persist_products goes on with index i of result r
PersistFrom(r, i) ==
    IF i < Len(r.found)
    THEN IF Truthy(r.found[i + 1].asin) \/ r.found[i + 1].name # ""
         THEN "product_get"
         ELSE "create_found"
    ELSE IF i < Len(r.found) + Len(r.lost)
         THEN "create_lost"
         ELSE "set_completed"

\* the item of the found loop at index i
FoundItem(p) == result[p].found[index[p] + 1]

\* the item of the lost loop at index i, which starts at len(result.found)
LostItem(p) == result[p].lost[index[p] - Len(result[p].found) + 1]

\* a lost loop that enumerates from 0
LostSortOrderFromZero(p) == index[p] - Len(result[p].found)

\* the sort_order of the lost loop: enumerate(result.lost, start=len(result.found))
LostSortOrder(p) == index[p]

\* where the found loop goes after the product of the item is known
AfterProduct(p) ==
    IF Truthy(FoundItem(p).asin) THEN "listing_get" ELSE "create_found"

\* the row VideoProduct.objects.create(...) inserts
VideoProductRow(video, prod, name, timestamp, sources, is_found, sort_order, by) ==
    [video |-> video, product |-> prod, name |-> name, timestamp |-> timestamp,
     source |-> _determine_source(sources), is_reviewed |-> FALSE,
     is_found |-> is_found, sort_order |-> sort_order, run |-> by, user |-> ""]

\* trigger_analysis(video_id, use_mock): Video.objects.get(pk=video_id).
\* A worker takes a call when it is not inside one; the locals of its
\* previous call are gone.
Trigger(p, v, mock) ==
    /\ pc[p] \in {"idle", "returned", "raised"}
    /\ runs < MaxRuns
    /\ runs' = runs + 1
    /\ run' = [run EXCEPT ![p] = runs + 1]
    /\ vid' = [vid EXCEPT ![p] = v]
    /\ use_mock' = [use_mock EXCEPT ![p] = mock]
    /\ providers' = [providers EXCEPT ![p] = NoProviders]
    /\ result' = [result EXCEPT ![p] = NoOut]
    /\ index' = [index EXCEPT ![p] = 0]
    /\ product' = [product EXCEPT ![p] = 0]
    /\ exc' = [exc EXCEPT ![p] = None]
    /\ ret' = [ret EXCEPT ![p] = None]
    /\ pc' = [pc EXCEPT ![p] = "get_providers"]
    /\ UNCHANGED <<settings, dbVars, pipeVars, apiVars, soloVars, creditVars>>

\* providers = _get_providers_from_settings(use_mock=use_mock)
GetProviders(p) ==
    /\ pc[p] = "get_providers"
    /\ IF _get_providers_from_settings_raises(use_mock[p], settings)
       THEN /\ exc' = [exc EXCEPT ![p] = Some(Exception("ValueError", "_get_providers_from_settings"))]
            /\ pc' = [pc EXCEPT ![p] = "raised"]
            /\ UNCHANGED providers
       ELSE /\ providers' = [providers EXCEPT ![p] = _get_providers_from_settings(use_mock[p], settings)]
            /\ pc' = [pc EXCEPT ![p] = "set_processing"]
            /\ UNCHANGED exc
    /\ UNCHANGED <<settings, dbVars, vid, use_mock, result, index, product, ret, runs, run, pipeVars, apiVars, soloVars, creditVars>>

\* video.status = PROCESSING; video.save(update_fields=["status"])
SetProcessing(p) ==
    /\ pc[p] = "set_processing"
    /\ status' = [status EXCEPT ![vid[p]] = PROCESSING]
    /\ pc' = [pc EXCEPT ![p] = "run_pipeline"]
    /\ UNCHANGED <<settings, products, listings, vps, vid, use_mock, providers, result,
                   index, product, exc, ret, runs, run, pipeVars, apiVars, soloVars, creditVars>>

\* result = run_pipeline(video.youtube_url, providers)
RunPipeline(p) ==
    /\ pc[p] = "run_pipeline"
    /\ \E world \in Worlds(providers[p], settings) :
         LET r == run_pipeline(MockUrl, providers[p], settings, world) IN
         IF r.exc # None
         THEN /\ StartRaise(p, r.exc[1])
              /\ UNCHANGED <<result, index>>
         ELSE /\ result' = [result EXCEPT ![p] = r]
              /\ index' = [index EXCEPT ![p] = 0]
              /\ pc' = [pc EXCEPT ![p] = PersistFrom(r, 0)]
              /\ UNCHANGED exc
    /\ UNCHANGED <<settings, dbVars, vid, use_mock, providers, product, ret, runs, run, pipeVars, apiVars, soloVars, creditVars>>

\* a plain create in place of the get_or_create: the get never matches
ProductGetAlwaysMisses(p) ==
    /\ pc[p] = "product_get"
    /\ pc' = [pc EXCEPT ![p] = "product_create"]
    /\ UNCHANGED <<settings, dbVars, vid, use_mock, providers, result, index, product, exc,
                   ret, runs, run, pipeVars, apiVars, soloVars, creditVars>>

\* Product.objects.get_or_create(name=...): the get
ProductGet(p) ==
    /\ pc[p] = "product_get"
    /\ LET rows == ProductsNamed(FoundItem(p).name) IN
       IF Cardinality(rows) > 1
       THEN /\ StartRaise(p, Exception("MultipleObjectsReturned", "_persist_products"))
            /\ UNCHANGED product
       ELSE IF rows = {}
       THEN /\ pc' = [pc EXCEPT ![p] = "product_create"]
            /\ UNCHANGED <<product, exc>>
       ELSE /\ product' = [product EXCEPT ![p] = CHOOSE i \in rows : TRUE]
            /\ pc' = [pc EXCEPT ![p] = AfterProduct(p)]
            /\ UNCHANGED exc
    /\ UNCHANGED <<settings, dbVars, vid, use_mock, providers, result, index, ret, runs, run, pipeVars, apiVars, soloVars, creditVars>>

\* Product.objects.get_or_create(name=...): the create (name is not unique)
ProductCreate(p) ==
    /\ pc[p] = "product_create"
    /\ products' = Append(products, [name |-> FoundItem(p).name])
    /\ product' = [product EXCEPT ![p] = Len(products) + 1]
    /\ pc' = [pc EXCEPT ![p] = AfterProduct(p)]
    /\ UNCHANGED <<settings, status, listings, vps, vid, use_mock, providers, result, index,
                   exc, ret, runs, run, pipeVars, apiVars, soloVars, creditVars>>

\* ProductMarket.objects.get_or_create(product=, market=AMAZON, market_product_id=asin): the get
ListingGet(p) ==
    /\ pc[p] = "listing_get"
    /\ LET rows == ListingsOf(product[p], AMAZON, FoundItem(p).asin[1]) IN
       IF Cardinality(rows) > 1
       THEN StartRaise(p, Exception("MultipleObjectsReturned", "_persist_products"))
       ELSE /\ pc' = [pc EXCEPT ![p] = IF rows = {} THEN "listing_create" ELSE "create_found"]
            /\ UNCHANGED exc
    /\ UNCHANGED <<settings, dbVars, vid, use_mock, providers, result, index, product, ret,
                   runs, run, pipeVars, apiVars, soloVars, creditVars>>

\* ... the create; a refused insert (IntegrityError) is answered by the row that is there
ListingCreate(p) ==
    /\ pc[p] = "listing_create"
    /\ IF UniqueTogetherViolated(product[p], AMAZON, FoundItem(p).asin[1])
       THEN UNCHANGED listings
       ELSE listings' = Append(listings, [product |-> product[p], market |-> AMAZON,
                                          market_product_id |-> FoundItem(p).asin[1]])
    /\ pc' = [pc EXCEPT ![p] = "create_found"]
    /\ UNCHANGED <<settings, status, products, vps, vid, use_mock, providers, result, index,
                   product, exc, ret, runs, run, pipeVars, apiVars, soloVars, creditVars>>

\* a found loop that first clears what the video had before this call
CreateFoundReplacesRows(p) ==
    /\ pc[p] = "create_found"
    /\ LET item == FoundItem(p)
           prod == IF Truthy(item.asin) \/ item.name # "" THEN product[p] ELSE 0 IN
       vps' = { r \in vps : r.video # vid[p] \/ r.run = run[p] }
              \cup { VideoProductRow(vid[p], prod, item.name, item.timestamp,
                                     item.sources, TRUE, index[p], run[p]) }
    /\ index' = [index EXCEPT ![p] = index[p] + 1]
    /\ pc' = [pc EXCEPT ![p] = PersistFrom(result[p], index[p] + 1)]
    /\ UNCHANGED <<settings, status, products, listings, vid, use_mock, providers, result,
                   product, exc, ret, runs, run, pipeVars, apiVars, soloVars, creditVars>>

\* VideoProduct.objects.create(..., is_found=True, sort_order=index) of the found loop
CreateFound(p) ==
    /\ pc[p] = "create_found"
    /\ LET item == FoundItem(p)
           prod == IF Truthy(item.asin) \/ item.name # "" THEN product[p] ELSE 0 IN
       vps' = vps \cup { VideoProductRow(vid[p], prod, item.name, item.timestamp,
                                          item.sources, TRUE, index[p], run[p]) }
    /\ index' = [index EXCEPT ![p] = index[p] + 1]
    /\ pc' = [pc EXCEPT ![p] = PersistFrom(result[p], index[p] + 1)]
    /\ UNCHANGED <<settings, status, products, listings, vid, use_mock, providers, result,
                   product, exc, ret, runs, run, pipeVars, apiVars, soloVars, creditVars>>

\* a lost loop that keeps the product of the last found item and the
\* default of is_found
CreateLostAsFound(p) ==
    /\ pc[p] = "create_lost"
    /\ LET item == LostItem(p) IN
       vps' = vps \cup { VideoProductRow(vid[p], product[p], item.name, item.timestamp,
                                          item.sources, TRUE, LostSortOrder(p), run[p]) }
    /\ index' = [index EXCEPT ![p] = index[p] + 1]
    /\ pc' = [pc EXCEPT ![p] = PersistFrom(result[p], index[p] + 1)]
    /\ UNCHANGED <<settings, status, products, listings, vid, use_mock, providers, result,
                   product, exc, ret, runs, run, pipeVars, apiVars, soloVars, creditVars>>

\* VideoProduct.objects.create(..., product=None, is_found=False, sort_order=index) of the lost loop
CreateLost(p) ==
    /\ pc[p] = "create_lost"
    /\ LET item == LostItem(p) IN
       vps' = vps \cup { VideoProductRow(vid[p], 0, item.name, item.timestamp,
                                          item.sources, FALSE, LostSortOrder(p), run[p]) }
    /\ index' = [index EXCEPT ![p] = index[p] + 1]
    /\ pc' = [pc EXCEPT ![p] = PersistFrom(result[p], index[p] + 1)]
    /\ UNCHANGED <<settings, status, products, listings, vid, use_mock, providers, result,
                   product, exc, ret, runs, run, pipeVars, apiVars, soloVars, creditVars>>

\* a return that counts every result item
SetCompletedCountsAll(p) ==
    /\ pc[p] = "set_completed"
    /\ status' = [status EXCEPT ![vid[p]] = COMPLETED]
    /\ ret' = [ret EXCEPT ![p] = Some([status |-> COMPLETED,
                                       found |-> Len(result[p].found) + Len(result[p].lost)])]
    /\ pc' = [pc EXCEPT ![p] = "returned"]
    /\ UNCHANGED <<settings, products, listings, vps, vid, use_mock, providers, result,
                   index, product, exc, runs, run, pipeVars, apiVars, soloVars, creditVars>>

\* video.status = COMPLETED; save; return {"status": ..., "found": len(result.found)}
SetCompleted(p) ==
    /\ pc[p] = "set_completed"
    /\ status' = [status EXCEPT ![vid[p]] = COMPLETED]
    /\ ret' = [ret EXCEPT ![p] = Some([status |-> COMPLETED, found |-> Len(result[p].found)])]
    /\ pc' = [pc EXCEPT ![p] = "returned"]
    /\ UNCHANGED <<settings, products, listings, vps, vid, use_mock, providers, result,
                   index, product, exc, runs, run, pipeVars, apiVars, soloVars, creditVars>>

\* a handler that records the failure and returns normally
ExceptSwallows(p) ==
    /\ pc[p] = "except"
    /\ status' = [status EXCEPT ![vid[p]] = FAILED]
    /\ ret' = [ret EXCEPT ![p] = Some([status |-> FAILED, found |-> 0])]
    /\ pc' = [pc EXCEPT ![p] = "returned"]
    /\ UNCHANGED <<settings, products, listings, vps, vid, use_mock, providers, result,
                   index, product, exc, runs, run, pipeVars, apiVars, soloVars, creditVars>>

\* except Exception: video.status = FAILED; save; raise
Except(p) ==
    /\ pc[p] = "except"
    /\ status' = [status EXCEPT ![vid[p]] = FAILED]
    /\ pc' = [pc EXCEPT ![p] = "raised"]
    /\ UNCHANGED <<settings, products, listings, vps, vid, use_mock, providers, result,
                   index, product, exc, ret, runs, run, pipeVars, apiVars, soloVars, creditVars>>

(***************************************************************************)
(* video/api.py: the handlers that write Video.status or the association   *)
(* table.  A handler that loads a row and saves it later is two steps.     *)
(***************************************************************************)
\* POST videos/{video_id}/publish
video_publish(v) ==
    /\ calls < MaxCalls
    /\ calls' = calls + 1
    /\ status' = [status EXCEPT ![v] = COMPLETED]
    /\ UNCHANGED <<settings, products, listings, vps, invVars, pipeVars, req, soloVars, creditVars>>

\* PATCH videos/{video_id}/: video = get_object_or_404(Video, pk=video_id, ...)
UpdateVideoGet(v, payload_status) ==
    /\ req = None
    /\ calls < MaxCalls
    /\ calls' = calls + 1
    /\ req' = Some([video |-> v, status |-> status[v], payload_status |-> payload_status])
    /\ UNCHANGED <<settings, dbVars, invVars, pipeVars, soloVars, creditVars>>

\* ... if payload.status is not None: video.status = payload.status; video.save()
UpdateVideoSave ==
    /\ req # None
    /\ status' = [status EXCEPT ![req[1].video] = DictGet(req[1].payload_status, req[1].status)]
    /\ req' = None
    /\ UNCHANGED <<settings, products, listings, vps, invVars, pipeVars, calls, soloVars, creditVars>>

\* the users of the API and the user each video belongs to (Video.user)
Users == {"A", "B"}

Owner(v) == IF v = "v1" THEN "A" ELSE "B"

\* the row POST video-products/ inserts for a payload that names a video and
\* the source "manual" only; user is the user whose request inserted it
ManualRow(v) ==
    [video |-> v, product |-> 0, name |-> "", timestamp |-> "", source |-> "manual",
     is_reviewed |-> FALSE, is_found |-> TRUE, sort_order |-> 0, run |-> 0,
     user |-> Owner(v)]

\* POST video-products/ by user u: 403 unless the video is u's
create_video_product(u, v) ==
    /\ calls < MaxCalls
    /\ ManualRow(v) \notin vps
    /\ calls' = calls + 1
    /\ vps' = IF Owner(v) # u THEN vps ELSE vps \cup { ManualRow(v) }
    /\ UNCHANGED <<settings, status, products, listings, invVars, pipeVars, req, soloVars, creditVars>>

\* PATCH video-products/{id}/ by user u (also reached through
\* PATCH videos/{video_id}/products/{id}, which sets payload.video_id):
\* 404 unless the row is on a video of u; then every field the payload sets
\* is assigned, the video by get_object_or_404(Video, pk=payload.video_id)
update_video_product(u, row, video_id, is_reviewed, is_found) ==
    /\ calls < MaxCalls
    /\ row \in vps
    /\ calls' = calls + 1
    /\ vps' = IF Owner(row.video) # u
              THEN vps
              ELSE (vps \ { row }) \cup
                   { [row EXCEPT !.video = DictGet(video_id, row.video),
                                 !.is_reviewed = DictGet(is_reviewed, row.is_reviewed),
                                 !.is_found = DictGet(is_found, row.is_found)] }
    /\ UNCHANGED <<settings, status, products, listings, invVars, pipeVars, req, soloVars, creditVars>>

\* DELETE videos/{video_id}/products/{video_product_id}
video_products_delete(v, row) ==
    /\ calls < MaxCalls
    /\ row \in vps
    /\ row.video = v
    /\ calls' = calls + 1
    /\ vps' = vps \ { row }
    /\ UNCHANGED <<settings, status, products, listings, invVars, pipeVars, req, soloVars, creditVars>>

\* no invocation is inside a call
Quiescent == \A q \in Procs : pc[q] \in {"idle", "returned", "raised"}

\* a call that starts only when no other call is in progress
TriggerAlone(p, v, mock) == Quiescent /\ Trigger(p, v, mock)

Next ==
    \E p \in Procs :
        \/ \E v \in Videos, mock \in BOOLEAN : Trigger(p, v, mock)
        \/ GetProviders(p)
        \/ SetProcessing(p)
        \/ RunPipeline(p)
        \/ ProductGet(p)
        \/ ProductCreate(p)
        \/ ListingGet(p)
        \/ ListingCreate(p)
        \/ CreateFound(p)
        \/ CreateLost(p)
        \/ SetCompleted(p)
        \/ Except(p)

Spec == Init /\ [][Next]_vars

\* the same system when its calls do not overlap (successive runs)
NextSeq ==
    \E p \in Procs :
        \/ \E v \in Videos, mock \in BOOLEAN : TriggerAlone(p, v, mock)
        \/ GetProviders(p)
        \/ SetProcessing(p)
        \/ RunPipeline(p)
        \/ ProductGet(p)
        \/ ProductCreate(p)
        \/ ListingGet(p)
        \/ ListingCreate(p)
        \/ CreateFound(p)
        \/ CreateLost(p)
        \/ SetCompleted(p)
        \/ Except(p)

SpecSeq == Init /\ [][NextSeq]_vars

\* the pipeline together with the API handlers
NextApi ==
    \/ Next
    \/ \E v \in Videos : video_publish(v)
    \/ \E v \in Videos, payload_status \in {None} \cup { Some(s) : s \in VideoStatus } :
          UpdateVideoGet(v, payload_status)
    \/ UpdateVideoSave
    \/ \E u \in Users, v \in Videos : create_video_product(u, v)
    \/ \E v \in Videos, row \in vps : video_products_delete(v, row)

SpecApi == Init /\ [][NextApi]_vars

(***************************************************************************)
(* The stages from detection on, called on a context that holds frames     *)
(* (extract_frames itself leaves none).                                    *)
(***************************************************************************)
FrameLists == { <<>>, <<"f1">>, <<"f1", "f2">> }

InitRefine ==
    /\ \E vision \in {"mock", "openai"}, frames \in FrameLists :
         LET provs == PipelineProviders("mock", vision, "mock", "mock")
             c == transcribe_audio(extract_audio(download_video(
                      NewContext(MockUrl, provs), FALSE), FALSE),
                      "This is a mock transcript.")
         IN  ctx = [c EXCEPT !.frames = frames]
    /\ canned \in { MockLLMProvider(given) : given \in CandLists }
    /\ stage = "detect_products_from_audio"
    /\ out = NoOut
    /\ history = <<>>
    /\ settings = DefaultSettings
    /\ InitDb
    /\ InitInvocations
    /\ InitApi
    /\ det = NoCall
    /\ InitRest

NextRefine ==
    \/ PipeDetectAudio
    \/ PipeDetectVideo
    \/ PipeEnrich
    \/ PipeBuild

SpecRefine == InitRefine /\ [][NextRefine]_vars

(***************************************************************************)
(* pipeline/adapters.py: the real vision and extraction providers, handed  *)
(* the content of an upstream response.  A content is the JSON value it    *)
(* parses to (None when json.loads raises JSONDecodeError) and whether it  *)
(* comes wrapped in a markdown code fence.                                 *)
(***************************************************************************)
\* a JSON value: its type; the items of a list; the "description" and
\* "products" keys of an object.  shaped tells whether the items of the list
\* (the value of "products") are a list of objects, as expected, or not
Json(type, items, description, products_key, shaped) ==
    [type |-> type, items |-> items, description |-> description,
     products |-> products_key, shaped |-> shaped]

\* the JSON values an upstream model may answer with
JsonValues ==
    LET item == Candidate(Some("A"), None, None, None, None) IN
    { Json("scalar", <<>>, None, None, TRUE) }
    \cup { Json("list", items, None, None, TRUE) : items \in { <<>>, << item >> } }
    \cup { Json("list", << item >>, None, None, FALSE) }
    \cup { Json("dict", <<>>, d, pr, TRUE) :
             d \in { None, Some("a tripod") }, pr \in { None, Some(<<>>), Some(<< item >>) } }
    \cup { Json("dict", <<>>, d, Some(<< item >>), FALSE) : d \in { None, Some("a tripod") } }

Contents == { [fenced |-> f, json |-> j] : f \in BOOLEAN, j \in {None} \cup { Some(v) : v \in JsonValues } }

VisionParsers == {"OpenAIVisionProvider", "GeminiVisionProvider"}
LLMParsers == {"OpenAILLMProvider", "GeminiLLMProvider"}

\* what json.loads is handed: only GeminiLLMProvider strips the code fence
Loaded(provider, content) ==
    IF content.fenced /\ provider # "GeminiLLMProvider" THEN None ELSE content.json

\* a provider returned: the description (vision), the products, and whether
\* these are a list of objects
Returned(description, products_list, shaped) ==
    [raised |-> None, description |-> description, products |-> products_list,
     shaped |-> shaped]

RawText(content) == Some([raw |-> content])

\* the tail of analyze_image: content -> VisionResult
analyze_image(provider, content) ==
    LET data == Loaded(provider, content) IN
    IF data = None
    THEN Returned(RawText(content), <<>>, TRUE)
    ELSE IF data[1].type # "dict"
    THEN [raised |-> Some(Exception("AttributeError", "analyze_image")),
          description |-> None, products |-> <<>>, shaped |-> TRUE]
    ELSE Returned(Some([text |-> DictGet(data[1].description, "")]),
                  DictGet(data[1].products, <<>>), data[1].shaped)

\* the tail of extract_products: content -> list
extract_products(provider, content) ==
    LET data == Loaded(provider, content) IN
    IF data = None THEN Returned(None, <<>>, TRUE)
    ELSE IF data[1].type = "list" THEN Returned(None, data[1].items, data[1].shaped)
    ELSE IF data[1].type = "dict" /\ data[1].products # None
    THEN Returned(None, data[1].products[1], data[1].shaped)
    ELSE Returned(None, <<>>, TRUE)

InitParse ==
    /\ resp \in { [provider |-> pr, body |-> content, ret |-> None] :
                    pr \in VisionParsers \cup LLMParsers, content \in Contents }
    /\ vision_calls = <<>>
    /\ InitCredits
    /\ det = NoCall
    /\ settings = DefaultSettings
    /\ InitDb
    /\ InitInvocations
    /\ InitApi
    /\ ctx = NoContext
    /\ stage = "none"
    /\ out = NoOut
    /\ canned = <<>>
    /\ history = <<>>

Parse ==
    /\ resp.ret = None
    /\ resp' = [resp EXCEPT !.ret =
                  Some(IF resp.provider \in VisionParsers
                       THEN analyze_image(resp.provider, resp.body)
                       ELSE extract_products(resp.provider, resp.body))]
    /\ UNCHANGED <<settings, dbVars, invVars, pipeVars, apiVars, det, creditVars>>

NextParse == Parse

SpecParse == InitParse /\ [][NextParse]_vars

(***************************************************************************)
(* _determine_source called on its own.                                    *)
(***************************************************************************)
\* the strings a sources list may hold: the members of VideoProductSource
\* and one that is none of them
SourceTags == {"audio", "video", "subtitle", "manual", "other"}

InitSource ==
    /\ det \in { [sources |-> srcs, source |-> None] : srcs \in SeqsUpTo(SourceTags, MaxSources) }
    /\ settings = DefaultSettings
    /\ InitDb
    /\ InitInvocations
    /\ InitApi
    /\ ctx = NoContext
    /\ stage = "none"
    /\ out = NoOut
    /\ canned = <<>>
    /\ history = <<>>
    /\ InitRest

DetermineSource ==
    /\ det.source = None
    /\ det' = [det EXCEPT !.source = Some(_determine_source(det.sources))]
    /\ UNCHANGED <<settings, dbVars, invVars, pipeVars, apiVars, resp, creditVars>>

NextSource == DetermineSource

SpecSource == InitSource /\ [][NextSource]_vars

InitPipe ==
    /\ \E setup \in PipeSetups :
         /\ settings = setup.settings
         /\ ctx = NewContext(MockUrl, setup.providers)
         /\ canned \in IF setup.providers.llm = "mock"
                       THEN { MockLLMProvider(given) : given \in CandLists }
                       ELSE { <<>> }
    /\ history = <<>>
    /\ InitApi
    /\ det = NoCall
    /\ InitRest
    /\ stage = "download_video"
    /\ out = NoOut
    /\ status = [v \in Videos |-> PROCESSING]
    /\ products = <<>>
    /\ listings = <<>>
    /\ vps = {}
    /\ InitInvocations

NextPipe ==
    \/ PipeDownload
    \/ PipeExtractAudio
    \/ PipeTranscribe
    \/ PipeExtractFrames
    \/ PipeDetectAudio
    \/ PipeDetectVideo
    \/ PipeEnrich
    \/ PipeBuild
    \/ PipeAgain

SpecPipe == InitPipe /\ [][NextPipe]_vars


(***************************************************************************)
(* Properties of trigger_analysis (checked under Spec, or under SpecSeq    *)
(* where said).                                                            *)
(***************************************************************************)
\* the positions of _run_and_persist inside its try block
TryRegion ==
    {"run_pipeline", "product_get", "product_create", "listing_get", "listing_create",
     "create_found", "create_lost", "set_completed"}

\* the rows of the association table the current call of p created
RowsOf(p) == { r \in vps : r.run = run[p] }

\* C1 (as claimed): at every step in which trigger_analysis returns or
\* raises, the stored status of its video is Completed or Failed.
C1_TerminalStatusOnExit ==
    [][\A p \in Procs :
          (pc[p] \notin {"returned", "raised"} /\ pc'[p] \in {"returned", "raised"})
              => status'[vid'[p]] \in {COMPLETED, FAILED}]_vars

\* C2: an error raised by run_pipeline or by the persistence inside the try
\* block reaches the handler; the handler writes Failed and the call ends by
\* raising that same error, never by returning.
C2_FailureRecordedAndReraised ==
    [][\A p \in Procs :
          /\ (pc[p] \in TryRegion /\ exc'[p] # None) => pc'[p] = "except"
          /\ (pc[p] = "except" /\ pc'[p] # "except")
                => /\ pc'[p] = "raised"
                   /\ status'[vid[p]] = FAILED
                   /\ exc'[p] = exc[p]
                   /\ ret'[p] = None
          /\ (pc[p] # "returned" /\ pc'[p] = "returned") => exc[p] = None]_vars

\* C2 witness: a call that has raised the error its persistence step met,
\* with the video Failed.
C2_Witness ==
    \E p \in Procs :
        /\ pc[p] = "raised"
        /\ exc[p] = Some(Exception("MultipleObjectsReturned", "_persist_products"))
        /\ status[vid[p]] = FAILED

\* C3: when the runner and the persistence finish without raising, the call
\* returns, leaves the video Completed, and its summary's found count is
\* len(result.found), the number of is_found associations the call created
\* (at least one with the default mock providers).
C3_CompletedSummary ==
    [][\A p \in Procs :
          /\ (pc[p] = "set_completed" /\ pc'[p] # "set_completed") => pc'[p] = "returned"
          /\ (pc[p] # "returned" /\ pc'[p] = "returned")
                => /\ status'[vid[p]] = COMPLETED
                   /\ ret'[p] = Some([status |-> COMPLETED, found |-> Len(result[p].found)])
                   /\ Cardinality({ r \in RowsOf(p) : r.is_found }) = ret'[p][1].found
                   /\ (providers[p] = PipelineProviders("mock", "mock", "mock", "mock")
                          => ret'[p][1].found >= 1)]_vars

\* C3 witness: a call that returned a found count of 2 for a result that
\* also has a lost item.
C3_Witness ==
    \E p \in Procs :
        /\ pc[p] = "returned"
        /\ ret[p] = Some([status |-> COMPLETED, found |-> 2])
        /\ Len(result[p].lost) = 1
        /\ status[vid[p]] = COMPLETED

\* C7: a persistence that finished created one association per result item:
\* the found items carry sort_order 0..f-1 in list order, the lost items
\* f..f+l-1 in list order, with no gap and no repeated value.
C7_SortOrder ==
    \A p \in Procs :
        pc[p] \in {"set_completed", "returned"} =>
            LET f == Len(result[p].found)
                l == Len(result[p].lost)
            IN  /\ Cardinality(RowsOf(p)) = f + l
                /\ { r.sort_order : r \in RowsOf(p) } = 0..(f + l - 1)
                /\ \A i \in 1..f : \E r \in RowsOf(p) :
                      /\ r.sort_order = i - 1
                      /\ r.is_found
                      /\ r.video = vid[p]
                      /\ r.name = result[p].found[i].name
                /\ \A i \in 1..l : \E r \in RowsOf(p) :
                      /\ r.sort_order = f + i - 1
                      /\ ~r.is_found
                      /\ r.video = vid[p]
                      /\ r.name = result[p].lost[i].name

\* C7 witness: a finished persistence of two found items and one lost item.
C7_Witness ==
    \E p \in Procs :
        /\ pc[p] = "returned"
        /\ Len(result[p].found) = 2
        /\ Len(result[p].lost) = 1
        /\ { r.sort_order : r \in { x \in RowsOf(p) : ~x.is_found } } = {2}

\* (name, identifier) has been upserted: a product of that name has the listing
Upserted(name, asin) ==
    \E i \in ProductsNamed(name) : ListingsOf(i, AMAZON, asin) # {}

\* C8 (calls that do not overlap, SpecSeq): upserting a (name, identifier)
\* that was upserted before, in the same run or an earlier one, creates no
\* row and raises no error; there is exactly one product of that name and
\* exactly one listing (product, amazon, identifier).
C8_IdempotentUpsert ==
    [][\A p \in Procs :
          (/\ pc[p] \in {"product_get", "product_create", "listing_get", "listing_create"}
           /\ pc'[p] # pc[p]
           /\ Truthy(FoundItem(p).asin)
           /\ Upserted(FoundItem(p).name, FoundItem(p).asin[1]))
              => /\ products' = products
                 /\ listings' = listings
                 /\ exc'[p] = None
                 /\ Cardinality(ProductsNamed(FoundItem(p).name)) = 1
                 /\ \A i \in ProductsNamed(FoundItem(p).name) :
                       Cardinality(ListingsOf(i, AMAZON, FoundItem(p).asin[1])) = 1]_vars

\* C8 witness: the second upsert of a (name, identifier) is through, and the
\* catalog holds the one product and the one listing of the first.
C8_Witness ==
    \E p \in Procs :
        /\ pc[p] = "create_found"
        /\ Truthy(FoundItem(p).asin)
        /\ \E r \in vps : r.name = FoundItem(p).name /\ r.product = product[p]
        /\ Len(products) = 1
        /\ Len(listings) = 1

\* C9 (as claimed): when two invocations for different videos have ended,
\* every product name is held by exactly one product row, every listing by
\* one row, and neither invocation has failed on a get-or-create.
C9_RaceSafeUpsert ==
    \A p, q \in Procs :
        (/\ p # q
         /\ vid[p] # vid[q]
         /\ pc[p] \in {"returned", "raised"}
         /\ pc[q] \in {"returned", "raised"})
            => /\ \A i \in 1..Len(products) : ProductsNamed(products[i].name) = {i}
               /\ \A i \in 1..Len(listings) :
                     ListingsOf(listings[i].product, listings[i].market,
                                listings[i].market_product_id) = {i}
               /\ exc[p] # Some(Exception("MultipleObjectsReturned", "_persist_products"))

\* C10 (as claimed): no two listings of different products share
\* (market, market_product_id).
C10_ListingIdOnOneProduct ==
    \A i, j \in 1..Len(listings) :
        (/\ listings[i].market = listings[j].market
         /\ listings[i].market_product_id = listings[j].market_product_id)
            => listings[i].product = listings[j].product

\* C10 (amended): no two listings share (product, market, market_product_id).
C10_ListingUniquePerProduct ==
    \A i, j \in 1..Len(listings) : listings[i] = listings[j] => i = j

\* C10 witness: two products carry a listing with the same identifier, and
\* an invocation is past its get-or-create of a listing that was there.
C10_Witness ==
    /\ \E i, j \in 1..Len(listings) :
          /\ listings[i].product # listings[j].product
          /\ listings[i].market_product_id = listings[j].market_product_id
    /\ \E p \in Procs :
          /\ pc[p] = "create_found"
          /\ Truthy(FoundItem(p).asin)
          /\ \E r \in vps : r.product = product[p] /\ r.run # run[p]

\* C12 (as claimed): the write of Processing at the entry of
\* _run_and_persist is only taken from Pending, Completed or Failed: never
\* on a video whose stored status is already Processing.
C12_EntryFromNonProcessing ==
    [][\A p \in Procs :
          (pc[p] = "set_processing" /\ pc'[p] = "run_pipeline")
              => status[vid[p]] \in {"pending", COMPLETED, FAILED}]_vars

C18_RowFlags ==
    /\ \A r \in vps :
          /\ ~r.is_reviewed
          /\ ~r.is_found => r.product = 0
    /\ \A p \in Procs : \A r \in RowsOf(p) :
          IF r.sort_order < Len(result[p].found)
          THEN r.is_found
          ELSE ~r.is_found /\ r.product = 0

\* C18 witness: a returned call has stored two found items with a product
\* and, after them, a lost item.
C18_Witness ==
    \E p \in Procs :
        /\ pc[p] = "returned"
        /\ \E r1, r2, r3 \in RowsOf(p) :
              /\ r1.is_found /\ r1.product # 0
              /\ r2.is_found /\ r2.product # 0 /\ r2 # r1
              /\ ~r3.is_found
              /\ r3.sort_order >= Len(result[p].found)

C13_ProcessingWhileInFlight ==
    \A p \in Procs :
        pc[p] \in TryRegion \cup {"except"} => status[vid[p]] = PROCESSING

\* C14 (as claimed): no operation other than the pipeline moves a video
\* whose status is Processing to Completed or to Failed.
C14_PipelineSoleWriter ==
    [][\A v \in Videos :
          (status[v] = PROCESSING /\ status'[v] \in {COMPLETED, FAILED})
              => \E p \in Procs :
                    /\ vid[p] = v
                    /\ pc[p] \in {"set_completed", "except"}
                    /\ pc'[p] \in {"returned", "raised"}]_vars

\* C19: a pipeline invocation only inserts associations: no step of
\* trigger_analysis modifies or deletes a row that is already there, the
\* rows an earlier run or a manual edit left for the same video included.
C19_PipelineOnlyInserts ==
    [][pc' # pc => vps \subseteq vps']_vars

\* C19 witness: a video holds a manually created row, a row of an earlier
\* run and a row of a later run.
C19_Witness ==
    \E v \in Videos :
        /\ ManualRow(v) \in vps
        /\ \E r1, r2 \in vps :
              /\ r1.video = v /\ r2.video = v
              /\ r1.run > 0 /\ r2.run > r1.run

(***************************************************************************)
(* Properties of the stages (checked under SpecPipe).                      *)
(***************************************************************************)
\* the positions in the list that hold the result item of candidate i
ItemsOf(list, i) == { j \in 1..Len(list) : list[j].cand = i }

\* C4: build_result puts a candidate that carries an explicit confidence in
\* found if and only if it has an identifier or its confidence is >= 0.7,
\* and in lost otherwise.
C4_FoundCriterion ==
    stage = "done" =>
        \A i \in 1..Len(ctx.enriched) :
            LET item == ctx.enriched[i]
                strong == (item.asin # None /\ item.asin[1] # "") \/ item.confidence[1] >= 7000
            IN  item.confidence # None =>
                    /\ (ItemsOf(out.found, i) # {}) <=> strong
                    /\ (ItemsOf(out.lost, i) # {}) <=> ~strong

\* C4 witness: a finished run with a candidate of confidence exactly 0.7
\* and no identifier in found, and one of confidence 0.6999 in lost.
C4_Witness ==
    /\ stage = "done"
    /\ \E i, k \in 1..Len(ctx.enriched) :
          /\ ctx.enriched[i].asin = None
          /\ ctx.enriched[i].confidence = Some(7000)
          /\ ItemsOf(out.found, i) # {}
          /\ ctx.enriched[k].asin = None
          /\ ctx.enriched[k].confidence = Some(6999)
          /\ ItemsOf(out.lost, k) # {}

\* C5 (as claimed): a candidate with no identifier and no confidence field
\* counts as confidence 1.0, so build_result puts it in found.
C5_AbsentConfidenceIsFound ==
    stage = "done" =>
        \A i \in 1..Len(ctx.enriched) :
            (~Truthy(ctx.enriched[i].asin) /\ ctx.enriched[i].confidence = None)
                => ItemsOf(out.found, i) # {}

\* C6: the partition is total and disjoint: found and lost together hold
\* exactly one result item for every candidate the extraction provider
\* returned, so their lengths add up to the number of candidates.
C6_Partition ==
    stage = "done" =>
        /\ Len(out.found) + Len(out.lost) = Len(ctx.candidates)
        /\ \A i \in 1..Len(ctx.candidates) :
              Cardinality(ItemsOf(out.found, i)) + Cardinality(ItemsOf(out.lost, i)) = 1

\* C6 witness: a finished run of two candidates, one found and one lost.
C6_Witness ==
    /\ stage = "done"
    /\ Len(ctx.candidates) = 2
    /\ Len(out.found) = 1
    /\ Len(out.lost) = 1

\* C11 (as claimed): a failing catalog search or lookup for one candidate,
\* the NotImplementedError of the marketplace provider included, does not
\* leave the enrichment stage: run_pipeline never raises from it.
C11_SearchFailureIsolated ==
    ~(/\ stage = "raised"
      /\ out.exc # None
      /\ out.exc[1].origin = "enrich_with_search")

\* C16: run_pipeline is deterministic with mock providers: all the calls
\* made with one reference and one mock provider set, whatever candidates
\* its mock extraction provider was constructed with, return equal found
\* lists and equal lost lists.
C16_MockRunsDeterministic ==
    (ctx.providers.transcription = "mock" /\ ctx.providers.llm = "mock") =>
        \A i, j \in 1..Len(history) :
            /\ history[i].found = history[j].found
            /\ history[i].lost = history[j].lost

\* C16 witness: two calls with the all-mock provider set have returned, and
\* the first one left its identifier in a candidate of the extraction
\* provider that was constructed without one.
C16_Witness ==
    /\ Len(history) = 2
    /\ ctx.providers = PipelineProviders("mock", "mock", "mock", "mock")
    /\ \E i \in 1..Len(canned) :
          /\ canned[i].name = Some("A")
          /\ canned[i].asin = Some(MockAsin)
    /\ Len(history[2].found) + Len(history[2].lost) = 2

(***************************************************************************)
(* Properties of _determine_source (checked under SpecSource).             *)
(***************************************************************************)
\* C17: the source of an association is resolved from the sources of the
\* item by the priority video > audio > subtitle, is audio when sources is
\* empty or holds none of the three, and is never manual.
C17_SourcePriority ==
    det.source # None =>
        LET has(tag) == \E i \in 1..Len(det.sources) : det.sources[i] = tag
            expected == IF has("video") THEN "video"
                        ELSE IF has("audio") THEN "audio"
                        ELSE IF has("subtitle") THEN "subtitle"
                        ELSE "audio"
        IN  /\ det.source = Some(expected)
            /\ det.source # Some("manual")

\* C17 witness: a list that names audio before video was resolved to video.
C17_Witness ==
    /\ det.sources = <<"subtitle", "audio", "video">>
    /\ det.source = Some("video")

(***************************************************************************)
(* Properties of the detection and refinement stages (checked under        *)
(* SpecRefine).                                                            *)
(***************************************************************************)
\* the tags of a sources value
Tags(o) == { DictGet(o, <<>>)[i] : i \in 1..Len(DictGet(o, <<>>)) }

NoDuplicate(o) ==
    \A i, j \in 1..Len(DictGet(o, <<>>)) :
        DictGet(o, <<>>)[i] = DictGet(o, <<>>)[j] => i = j

\* C21: the sources of a candidate only grow during a run: every stage
\* keeps the tags that were there and adds none twice, the result item
\* holds the tags of its candidate, and a candidate tagged "audio" that is
\* refined ends with exactly audio and video.
C21_SourcesOnlyGrow ==
    [][/\ Len(canned') = Len(canned)
       /\ \A i \in 1..Len(canned) :
             /\ Tags(canned[i].sources) \subseteq Tags(canned'[i].sources)
             /\ NoDuplicate(canned[i].sources) => NoDuplicate(canned'[i].sources)
       /\ \A k \in 1..Len(vision_calls') :
             (/\ k > Len(vision_calls)
              /\ vision_calls'[k].products # <<>>
              /\ canned[vision_calls'[k].cand].sources = Some(<<"audio">>))
                => canned'[vision_calls'[k].cand].sources = Some(<<"audio", "video">>)
       /\ stage' = "done" =>
             /\ \A j \in 1..Len(out'.found) :
                   Tags(canned[out'.found[j].cand].sources) = Tags(Some(out'.found[j].sources))
             /\ \A j \in 1..Len(out'.lost) :
                   Tags(canned[out'.lost[j].cand].sources) = Tags(Some(out'.lost[j].sources))]_vars

\* C21 witness: a finished run in which a candidate the extraction provider
\* returned without sources was tagged audio, then refined, and its result
\* item carries audio and video.
C21_Witness ==
    /\ stage = "done"
    /\ Len(vision_calls) > 0
    /\ \E j \in 1..Len(out.found) :
          /\ out.found[j].sources = <<"audio", "video">>
          /\ canned[out.found[j].cand].sources = Some(<<"audio", "video">>)

(***************************************************************************)
(* Properties of the real providers (checked under SpecParse).             *)
(***************************************************************************)
\* the content is a JSON object with a products array of objects (vision),
\* or a JSON array of objects or an object with such an array (extraction)
WellFormed(provider, content) ==
    LET data == Loaded(provider, content) IN
    /\ data # None
    /\ data[1].shaped
    /\ IF provider \in VisionParsers
       THEN data[1].type = "dict" /\ data[1].products # None
       ELSE \/ data[1].type = "list"
            \/ data[1].type = "dict" /\ data[1].products # None

\* C22 (as claimed): for every response that is unparseable or not of the
\* expected shape the extraction providers return an empty list, the vision
\* providers return no products and the raw text as description, and none
\* of them raises.
C22_MalformedDegrades ==
    (resp.ret # None /\ ~WellFormed(resp.provider, resp.body)) =>
        /\ resp.ret[1].raised = None
        /\ resp.ret[1].products = <<>>
        /\ resp.provider \in VisionParsers => resp.ret[1].description = RawText(resp.body)

(***************************************************************************)
(* Progress of an invocation.  No call run_pipeline makes carries a        *)
(* timeout (yt-dlp, ffmpeg.run, the litellm completions), so a call into a *)
(* real download, a real audio extraction or a provider that is not a mock *)
(* may never return.  The thread that runs the invocation is scheduled     *)
(* fairly: every step that stays possible is taken.                        *)
(***************************************************************************)
\* some stage of run_pipeline calls out of the process
CallsOut(provs, cfg) ==
    \/ cfg.PIPELINE_USE_REAL_DOWNLOAD
    \/ cfg.PIPELINE_USE_REAL_AUDIO
    \/ provs.transcription # "mock"
    \/ provs.llm # "mock"

\* result = run_pipeline(...): a call inside it never returns
Block(p) ==
    /\ pc[p] = "run_pipeline"
    /\ CallsOut(providers[p], settings)
    /\ pc' = [pc EXCEPT ![p] = "blocked"]
    /\ UNCHANGED <<settings, dbVars, vid, use_mock, providers, result, index, product, exc,
                   ret, runs, run, pipeVars, apiVars, soloVars, creditVars>>

\* the steps of an invocation that is under way
Step(p) ==
    \/ GetProviders(p)
    \/ SetProcessing(p)
    \/ RunPipeline(p)
    \/ ProductGet(p)
    \/ ProductCreate(p)
    \/ ListingGet(p)
    \/ ListingCreate(p)
    \/ CreateFound(p)
    \/ CreateLost(p)
    \/ SetCompleted(p)
    \/ Except(p)

NextLive ==
    \/ Next
    \/ \E p \in Procs : Block(p)

SpecLive == Init /\ [][NextLive]_vars /\ \A p \in Procs : WF_vars(Step(p))

\* C23 (as claimed): an invocation that has committed Processing and is
\* about to run the pipeline eventually leaves _run_and_persist, having
\* written Completed (returned) or Failed (raised), whatever the provider
\* calls do.
C23_EventuallyTerminal ==
    \A p \in Procs : (pc[p] = "run_pipeline") ~> (pc[p] \in {"returned", "raised"})

(***************************************************************************)
(* The provider set across a run (checked under SpecPipe).                 *)
(***************************************************************************)
\* C24 (as claimed): no stage of a run changes the state of a provider: the
\* canned candidates of the mock extraction provider keep their fields and
\* their sources lists through detection, enrichment and result building.
C24_ProvidersNeverMutated == [][canned' = canned]_vars

(***************************************************************************)
(* video/api.py create_video and the credit balance of user/models.py.     *)
(* The handler runs in autocommit: the authentication reads the user row,  *)
(* the handler creates the video and then saves the balance it computed    *)
(* from the row it read.  Requests of one user run concurrently.           *)
(***************************************************************************)
MaxCredits == 2

Requests == {"r1", "r2", "r3"}

InitCreditRequests ==
    /\ credits \in 0..MaxCredits
    /\ cv = [held |-> credits,
             at |-> [r \in Requests |-> "idle"],
             auth |-> [r \in Requests |-> 0],
             response |-> [r \in Requests |-> 0]]
    /\ nvideos = 0

\* BearerAuth.authenticate: User.objects.filter(api_token=token).first()
Authenticate(r) ==
    /\ cv.at[r] = "idle"
    /\ cv' = [cv EXCEPT !.at[r] = "create_video", !.auth[r] = credits]
    /\ UNCHANGED <<credits, nvideos, settings, dbVars, invVars, pipeVars, apiVars, soloVars>>

\* create_video: the credit check and Video.objects.create(...)
CreateVideo(r) ==
    /\ cv.at[r] = "create_video"
    /\ IF cv.auth[r] <= 0
       THEN /\ cv' = [cv EXCEPT !.at[r] = "done", !.response[r] = 402]
            /\ UNCHANGED nvideos
       ELSE /\ nvideos' = nvideos + 1
            /\ cv' = [cv EXCEPT !.at[r] = "save"]
    /\ UNCHANGED <<credits, settings, dbVars, invVars, pipeVars, apiVars, soloVars>>

\* request.auth.credits -= 1; request.auth.save(update_fields=["credits"])
SaveCredits(r) ==
    /\ cv.at[r] = "save"
    /\ credits' = cv.auth[r] - 1
    /\ cv' = [cv EXCEPT !.at[r] = "done", !.response[r] = 201]
    /\ UNCHANGED <<nvideos, settings, dbVars, invVars, pipeVars, apiVars, soloVars>>

InitCreditsSpec ==
    /\ settings = DefaultSettings
    /\ InitDb /\ InitInvocations /\ InitApi
    /\ ctx = NoContext /\ stage = "none" /\ out = NoOut /\ canned = <<>> /\ history = <<>>
    /\ det = NoCall
    /\ vision_calls = <<>> /\ resp = NoResponse
    /\ InitCreditRequests

NextCredits ==
    \E r \in Requests :
        \/ Authenticate(r)
        \/ CreateVideo(r)
        \/ SaveCredits(r)

SpecCredits == InitCreditsSpec /\ [][NextCredits]_vars

\* C25 (as claimed): a user who held c credits and got no top-up has
\* created at most c videos, under every interleaving of create_video
\* requests.
C25_AtMostOneVideoPerCredit == nvideos <= cv.held

(***************************************************************************)
(* The refinement stage by itself (checked under SpecRefine).              *)
(***************************************************************************)
\* the analyze_image calls the step from the current state to the next made
NewVisionCalls == SubSeq(vision_calls', Len(vision_calls) + 1, Len(vision_calls'))

\* the candidate lacks an identifier and carries a confidence below 0.8
LacksIdBelowThreshold(cand) ==
    /\ cand.asin \in {None, Some("")}
    /\ cand.confidence # None
    /\ cand.confidence[1] < 8000

\* C26: with frames, detect_products_from_video calls the vision provider
\* for exactly the candidates without identifier and with confidence < 0.8,
\* once each, with the first frame and the candidate's current name; a call
\* that returned a product overwrites the candidate's name and confidence
\* from the first product (a field the product lacks keeps the name, and
\* gives confidence 0.5); every other candidate keeps name, confidence
\* and sources.  Without frames nothing changes and no call is made.
C26_RefinesExactlyUnclear ==
    [][stage = "detect_products_from_video" =>
        LET old == ctx.candidates
            new == ctx'.candidates
            made == NewVisionCalls
            CallsFor(i) == { k \in 1..Len(made) : made[k].cand = i }
        IN  /\ Len(new) = Len(old)
            /\ ctx.frames = <<>> => (ctx' = ctx /\ made = <<>>)
            /\ ctx.frames # <<>> =>
                 /\ \A k \in 1..Len(made) :
                       /\ made[k].cand \in 1..Len(old)
                       /\ made[k].frame = ctx.frames[1]
                       /\ made[k].name = old[made[k].cand].name
                 /\ \A i \in 1..Len(old) :
                       /\ Cardinality(CallsFor(i)) =
                             IF LacksIdBelowThreshold(old[i]) THEN 1 ELSE 0
                       /\ \A k \in CallsFor(i) :
                             made[k].products # <<>> =>
                                LET top == made[k].products[1] IN
                                /\ new[i].name = IF top.name # None THEN top.name
                                                 ELSE old[i].name
                                /\ new[i].confidence =
                                     IF top.confidence # None THEN top.confidence
                                     ELSE Some(5000)
                       /\ (\A k \in CallsFor(i) : made[k].products = <<>>) =>
                             /\ new[i].name = old[i].name
                             /\ new[i].confidence = old[i].confidence
                             /\ new[i].sources = old[i].sources]_vars

\* C26 witness: the stage ran with frames on two candidates; one was unclear,
\* the call made for it used the first frame and returned a product whose
\* name replaced the candidate's, and no call was made for the other.
C26_Witness ==
    /\ stage = "enrich_with_search"
    /\ ctx.frames # <<>>
    /\ Len(ctx.candidates) = 2
    /\ Len(vision_calls) = 1
    /\ vision_calls[1].frame = ctx.frames[1]
    /\ vision_calls[1].products # <<>>
    /\ vision_calls[1].products[1].name # None
    /\ vision_calls[1].products[1].name # vision_calls[1].name
    /\ ctx.candidates[vision_calls[1].cand].name = vision_calls[1].products[1].name

(***************************************************************************)
(* The names of lost items (checked under SpecPipe).                       *)
(***************************************************************************)
\* C27 (as claimed): in the result of a finished run every lost item whose
\* candidate has an empty name, or none, is named "Unknown".
C27_LostNameDefaultsToUnknown ==
    stage = "done" =>
        \A j \in 1..Len(out.lost) :
            ctx.enriched[out.lost[j].cand].name \in {None, Some("")} =>
                out.lost[j].name = "Unknown"

(***************************************************************************)
(* update_video against the status writes of the pipeline (checked under   *)
(* SpecApi).                                                               *)
(***************************************************************************)
\* C28 (as claimed): the save of an update_video request whose payload
\* carries no status leaves the stored status of every video as it is,
\* whatever the pipeline wrote since the request loaded the video.
C28_UpdateWithoutStatusKeepsStatus ==
    [][(req # None /\ req' = None /\ req[1].payload_status = None) => status' = status]_vars

(***************************************************************************)
(* The association handlers of video/api.py by themselves: requests of two *)
(* users on associations their owners made (and may have reviewed)         *)
(* earlier.                                                                *)
(***************************************************************************)
InitOwn ==
    /\ settings = DefaultSettings
    /\ status = [v \in Videos |-> COMPLETED]
    /\ products = <<>>
    /\ listings = <<>>
    /\ vps \in SUBSET { [ManualRow(v) EXCEPT !.is_reviewed = b] : v \in Videos, b \in BOOLEAN }
    /\ InitInvocations
    /\ ctx = NoContext
    /\ stage = "none"
    /\ out = NoOut
    /\ canned = <<>>
    /\ history = <<>>
    /\ InitApi
    /\ det = NoCall
    /\ InitRest

NextOwn ==
    \/ \E u \in Users, v \in Videos : create_video_product(u, v)
    \/ \E u \in Users, row \in vps, video_id \in {None} \cup { Some(v) : v \in Videos },
          is_reviewed \in {None, Some(TRUE), Some(FALSE)},
          is_found \in {None, Some(TRUE), Some(FALSE)} :
          update_video_product(u, row, video_id, is_reviewed, is_found)
    \/ \E v \in Videos, row \in vps : video_products_delete(v, row)

SpecOwn == InitOwn /\ [][NextOwn]_vars

\* C29 (as claimed): every association a user's request created is on a
\* video that user owns, after any create, update and delete requests.
C29_AssociationsStayWithOwner ==
    \A r \in vps : r.user # "" => Owner(r.video) = r.user

(***************************************************************************)
(* Running the pipeline twice on one video (checked under SpecSeq).        *)
(***************************************************************************)
\* C30 (as claimed): when two invocations on the same video, with the same
\* providers and the same result, have both completed, the video has one
\* pipeline-created association per result item, and the sort_order values
\* of these associations are pairwise distinct.
C30_RerunIdempotent ==
    \A p, q \in Procs :
        ( /\ p # q
          /\ pc[p] = "returned" /\ pc[q] = "returned"
          /\ vid[p] = vid[q]
          /\ use_mock[p] = use_mock[q]
          /\ result[p] = result[q] ) =>
            LET rows == { r \in vps : r.video = vid[p] /\ r.run > 0 } IN
            /\ Cardinality(rows) = Len(result[p].found) + Len(result[p].lost)
            /\ \A r1, r2 \in rows : r1 # r2 => r1.sort_order # r2.sort_order

====
